---- MODULE Spec2Model ----
(***************************************************************************)
(* Q-Learning-Bot: a 5x5 grid world (environment.py) with a stochastic     *)
(* action kernel, and a tabular one-step Q-learning robot (robot.py)       *)
(* driven episode by episode from main.py.                                 *)
(*                                                                         *)
(* A state of the board is a pair <<row, col>>.  Actions are 0=up, 1=left, *)
(* 2=down, 3=right.  Python floats are modelled as fixed-point integers:   *)
(* Q-values in units of 1/QScale (the division in Bellman rounds, as each  *)
(* float operation does), epsilon in units of 1/EpsDen.                    *)
(***************************************************************************)
EXTENDS Integers, Sequences, FiniteSets, TLC

(* ------------------------------ bounds --------------------------------- *)

\* total number of update_bot calls explored
MaxSteps == 4

\* number of iterations of main's loop (3050 in main.py)
NumEpisodes == 2

\* resolution of the fixed-point Q-values: 1.0 is QScale
QScale == 1000

\* number of receive_action calls explored after one reset() in SpecWalk
MaxWalk == 11

\* besides 1.0, a Robot is constructed with an epsilon of 0..MaxEpsilon units
MaxEpsilon == 1

\* and with an epsilon_decrease of 1..MaxDecrease units
MaxDecrease == 2

(* --------------------------- environment.py ---------------------------- *)

height == 5

width == 5

\* robot.py: self.actions = [0, 1, 2, 3]
actions == 0..3

UP == 0

LEFT == 1

DOWN == 2

RIGHT == 3

Cells == (0..(height - 1)) \X (0..(width - 1))

\* numpy indexing of an axis of length n: a negative index counts from the end
NpIndex(k, n) == IF k < 0 THEN k + n ELSE k

\* mutant: the rewards of (1,2) and (1,3) written with row and column swapped
board_rewards_transposed(state) ==
    LET r == NpIndex(state[1], height)
        c == NpIndex(state[2], width)
    IN  IF <<r, c>> = <<1, 1>> THEN -100
        ELSE IF <<r, c>> = <<2, 1>> THEN 50
        ELSE IF <<r, c>> = <<3, 1>> THEN 100
        ELSE 0

\* board_rewards = np.full((height, width), 0) with three cells overwritten
board_rewards(state) ==
    LET r == NpIndex(state[1], height)
        c == NpIndex(state[2], width)
    IN  IF <<r, c>> = <<1, 1>> THEN -100
        ELSE IF <<r, c>> = <<1, 2>> THEN 50
        ELSE IF <<r, c>> = <<1, 3>> THEN 100
        ELSE 0

\* mutant: the mask without "robot is not allowed to cross upper border"
allowed_actions_open_top(state, a) ==
    LET r == NpIndex(state[1], height)
        c == NpIndex(state[2], width)
    IN  ~ \/ (c = 0 /\ a = 1)
          \/ (c = 4 /\ a = 3)
          \/ (r = 4 /\ a = 2)
          \/ (r \in 1..3 /\ a = 3)
          \/ (r \in 1..3 /\ a = 1)
          \/ (r = 0 /\ c = 1 /\ a = 2)
          \/ (r = 1 /\ c = 2 /\ a = 2)
          \/ (r = 0 /\ c = 3 /\ a = 2)
          \/ (r = 1 /\ c = 1 /\ a = 0)
          \/ (r = 2 /\ c = 2 /\ a = 0)
          \/ (r = 1 /\ c = 3 /\ a = 0)

\* mutant: one more inner border, allowed_actions[1, 2, 0] = 0, which closes
\* cell (1,2)
allowed_actions_closed_cell(state, a) ==
    LET r == NpIndex(state[1], height)
        c == NpIndex(state[2], width)
    IN  ~ \/ (c = 0 /\ a = 1)
          \/ (c = 4 /\ a = 3)
          \/ (r = 0 /\ a = 0)
          \/ (r = 4 /\ a = 2)
          \/ (r \in 1..3 /\ a = 3)
          \/ (r \in 1..3 /\ a = 1)
          \/ (r = 0 /\ c = 1 /\ a = 2)
          \/ (r = 1 /\ c = 2 /\ a = 2)
          \/ (r = 0 /\ c = 3 /\ a = 2)
          \/ (r = 1 /\ c = 1 /\ a = 0)
          \/ (r = 2 /\ c = 2 /\ a = 0)
          \/ (r = 1 /\ c = 3 /\ a = 0)
          \/ (r = 1 /\ c = 2 /\ a = 0)

\* mutant: the mask without the inner border allowed_actions[0, 3, 2] = 0
allowed_actions_no_wall(state, a) ==
    LET r == NpIndex(state[1], height)
        c == NpIndex(state[2], width)
    IN  ~ \/ (c = 0 /\ a = 1)
          \/ (c = 4 /\ a = 3)
          \/ (r = 0 /\ a = 0)
          \/ (r = 4 /\ a = 2)
          \/ (r \in 1..3 /\ a = 3)
          \/ (r \in 1..3 /\ a = 1)
          \/ (r = 0 /\ c = 1 /\ a = 2)
          \/ (r = 1 /\ c = 2 /\ a = 2)
          \/ (r = 1 /\ c = 1 /\ a = 0)
          \/ (r = 2 /\ c = 2 /\ a = 0)
          \/ (r = 1 /\ c = 3 /\ a = 0)

\* allowed_actions = np.ones((5, 5, 4)) with the listed slices set to 0
allowed_actions(state, a) ==
    LET r == NpIndex(state[1], height)
        c == NpIndex(state[2], width)
    IN  ~ \/ (c = 0 /\ a = 1)                  \* [:, 0, 1] left border
          \/ (c = 4 /\ a = 3)                  \* [:, 4, 3] right border
          \/ (r = 0 /\ a = 0)                  \* [0, :, 0] upper border
          \/ (r = 4 /\ a = 2)                  \* [4, :, 2] lower border
          \/ (r \in 1..3 /\ a = 3)             \* [1:4, :, 3]
          \/ (r \in 1..3 /\ a = 1)             \* [1:4, :, 1]
          \/ (r = 0 /\ c = 1 /\ a = 2)         \* [0, 1, 2]
          \/ (r = 1 /\ c = 2 /\ a = 2)         \* [1, 2, 2]
          \/ (r = 0 /\ c = 3 /\ a = 2)         \* [0, 3, 2]
          \/ (r = 1 /\ c = 1 /\ a = 0)         \* [1, 1, 0]
          \/ (r = 2 /\ c = 2 /\ a = 0)         \* [2, 2, 0]
          \/ (r = 1 /\ c = 3 /\ a = 0)         \* [1, 3, 0]

final_states == {<<1, 1>>, <<1, 2>>, <<1, 3>>}

\* mutant: the weights of intended action 2 (down) put 0.1 on up, its opposite
kernel_p_opposite ==
    << <<8, 1, 0, 1>>,
       <<1, 8, 1, 0>>,
       <<1, 1, 8, 0>>,
       <<1, 0, 1, 8>> >>

\* the weights p of np.random.choice(4, 1, p=...) for each intended action,
\* in tenths; entry [a + 1][r + 1] is the weight of realizing r when a is intended
kernel_p ==
    << <<8, 1, 0, 1>>,
       <<1, 8, 1, 0>>,
       <<0, 1, 8, 1>>,
       <<1, 0, 1, 8>> >>

\* the values np.random.choice can return for the intended action: those of
\* positive weight
randomized_actions(action) == {r \in 0..3 : kernel_p[action + 1][r + 1] > 0}

\* mutant: "move left" adds 1 to the column
next_state_left_adds(state, randomized_action) ==
    CASE randomized_action = 0 -> <<state[1] - 1, state[2]>>
      [] randomized_action = 1 -> <<state[1], state[2] + 1>>
      [] randomized_action = 2 -> <<state[1] + 1, state[2]>>
      [] randomized_action = 3 -> <<state[1], state[2] + 1>>

\* the next state according to the distorted action
next_state(state, randomized_action) ==
    CASE randomized_action = 0 -> <<state[1] - 1, state[2]>>
      [] randomized_action = 1 -> <<state[1], state[2] - 1>>
      [] randomized_action = 2 -> <<state[1] + 1, state[2]>>
      [] randomized_action = 3 -> <<state[1], state[2] + 1>>

\* mutant: a refused move is charged the reward of the cell the robot rests on
receive_action_cell_cost(state, randomized_action) ==
    IF allowed_actions(state, randomized_action)
    THEN LET new == next_state(state, randomized_action)
         IN  [robot_state |-> new,
              reward      |-> board_rewards(new) - 1,
              game_over   |-> new \in final_states]
    ELSE [robot_state |-> state, reward |-> board_rewards(state) - 1,
          game_over |-> FALSE]

\* mutant: the final-state test is made after a refused move too
receive_action_resting_done(state, randomized_action) ==
    IF allowed_actions(state, randomized_action)
    THEN LET new == next_state(state, randomized_action)
         IN  [robot_state |-> new,
              reward      |-> board_rewards(new) - 1,
              game_over   |-> new \in final_states]
    ELSE [robot_state |-> state, reward |-> -1,
          game_over |-> state \in final_states]

\* mutant: the reward is read at the cell the robot leaves
receive_action_old_cell(state, randomized_action) ==
    IF allowed_actions(state, randomized_action)
    THEN LET new == next_state(state, randomized_action)
         IN  [robot_state |-> new,
              reward      |-> board_rewards(state) - 1,
              game_over   |-> new \in final_states]
    ELSE [robot_state |-> state, reward |-> -1, game_over |-> FALSE]

\* Environment.receive_action once the distorted action is drawn: the new
\* robot_state and the returned (reward, game_over)
receive_action(state, randomized_action) ==
    IF allowed_actions(state, randomized_action)
    THEN LET new == next_state(state, randomized_action)
         IN  [robot_state |-> new,
              reward      |-> board_rewards(new) - 1,
              game_over   |-> new \in final_states]
    ELSE [robot_state |-> state, reward |-> -1, game_over |-> FALSE]

(* ------------------------------ robot.py ------------------------------- *)

\* main.py: Robot(alpha=0.1, ...), as the fraction AlphaNum / AlphaDen
AlphaNum == 1

AlphaDen == 10

\* main.py: Robot(..., gamma=0.98, ...), as the fraction GammaNum / GammaDen
GammaNum == 98

GammaDen == 100

\* epsilon and epsilon_decrease are counted in units of 1/EpsDen, the
\* epsilon_decrease=1/3000 of main.py: epsilon=1.0 is EpsDen units
EpsDen == 3000

\* -float('inf'): below every Q-value
NegInf == -2000000000

\* mutant: the Q-table starts at 0.0
InitialQ_zero == [s \in Cells |-> [a \in actions |-> 0]]

\* self.Q_table = np.full((5, 5, 4), -1.0)
InitialQ == [s \in Cells |-> [a \in actions |-> -QScale]]

\* the loop of max_reachable_q over self.actions, from action a on
RECURSIVE MaxScan(_, _, _, _)
MaxScan(Q, state, a, best) ==
    IF a > 3 THEN best
    ELSE MaxScan(Q, state, a + 1,
                 IF allowed_actions(state, a) /\ Q[state][a] > best
                 THEN Q[state][a] ELSE best)

\* mutant: the maximum over all 4 actions, allowed or not
RECURSIVE MaxScanAll(_, _, _, _)
MaxScanAll(Q, state, a, best) ==
    IF a > 3 THEN best
    ELSE MaxScanAll(Q, state, a + 1,
                    IF Q[state][a] > best THEN Q[state][a] ELSE best)

max_reachable_q_all(Q, state) == MaxScanAll(Q, state, 0, NegInf)

\* Robot.max_reachable_q
max_reachable_q(Q, state) == MaxScan(Q, state, 0, NegInf)

\* np.argmax over the 4 Q-values of a state: the index of the first maximum
RECURSIVE ArgmaxScan(_, _, _)
ArgmaxScan(row, a, best) ==
    IF a > 3 THEN best
    ELSE ArgmaxScan(row, a + 1, IF row[a] > row[best] THEN a ELSE best)

\* mutant: the index of the last maximum
RECURSIVE ArgmaxLastScan(_, _, _)
ArgmaxLastScan(row, a, best) ==
    IF a > 3 THEN best
    ELSE ArgmaxLastScan(row, a + 1, IF row[a] >= row[best] THEN a ELSE best)

argmax_last(row) == ArgmaxLastScan(row, 1, 0)

argmax(row) == ArgmaxScan(row, 1, 0)

\* the one-step Q-learning update of update_bot:
\* old + alpha * (new_reward + gamma * max_q - old)
Bellman(old, new_reward, max_q) ==
    IF max_q = NegInf THEN NegInf
    ELSE old + (AlphaNum * (new_reward * QScale
                            + (GammaNum * max_q) \div GammaDen
                            - old)) \div AlphaDen

\* mutant: state follows environment.robot_state, so the entry of the new
\* state is written
q_update_alias(Q, state, action, new_state, new_reward) ==
    [Q EXCEPT ![new_state][action] =
        Bellman(@, new_reward, max_reachable_q(Q, new_state))]

\* self.Q_table[state[0], state[1], action] += alpha * (...), with state the
\* list update_bot read from environment.robot_state before the call
q_update(Q, state, action, new_state, new_reward) ==
    [Q EXCEPT ![state][action] =
        Bellman(@, new_reward, max_reachable_q(Q, new_state))]

\* the outcomes of np.random.choice([1, 0], p=[1 - epsilon, epsilon])
take_best_choices(eps) ==
    {b \in BOOLEAN : IF b THEN eps < EpsDen ELSE eps > 0}

(* ------------------------------- state --------------------------------- *)

VARIABLES
    robot_state,       \* Environment.robot_state
    Q_table,           \* Robot.Q_table
    epsilon,           \* Robot.epsilon, in units of 1/EpsDen
    epsilon_decrease,  \* Robot.epsilon_decrease, in units of 1/EpsDen
    iteration,         \* Robot.iteration
    game_over,         \* Robot.game_over
    total_reward,      \* Robot.total_reward
    pc,                \* where main is: "main", "run_bot", "loop" or "done"
    i,                 \* the loop variable of main
    last,              \* history: the last call and what it returned
    rewards,           \* history: the rewards returned since the last restart()
    epsilon0,          \* history: the epsilon the Robot was constructed with
    steps              \* history: the number of receive_action calls so far

vars == <<robot_state, Q_table, epsilon, epsilon_decrease, iteration, game_over,
          total_reward, pc, i, last, rewards, epsilon0, steps>>

robot_vars == <<Q_table, epsilon, epsilon_decrease, iteration, game_over,
                total_reward, epsilon0>>

NoCall(op) ==
    [op |-> op, state |-> <<0, 0>>, take_best_action |-> FALSE, action |-> 0,
     randomized_action |-> 0, new_state |-> <<0, 0>>, new_reward |-> 0,
     game_over |-> FALSE]

\* Environment() and Robot(alpha, epsilon, gamma, epsilon_decrease) constructed
Init ==
    /\ robot_state = <<0, 0>>
    /\ Q_table = InitialQ
    /\ epsilon \in (0..MaxEpsilon) \cup {EpsDen}
    /\ epsilon_decrease \in 1..MaxDecrease
    /\ epsilon0 = epsilon
    /\ iteration = 0
    /\ game_over = FALSE
    /\ total_reward = 0
    /\ pc = "main"
    /\ i = 0
    /\ last = NoCall("init")
    /\ rewards = << >>
    /\ steps = 0

(* ------------------------- the driver of main.py ----------------------- *)

\* mutant: main's loop without env.reset()
Reset_stay ==
    /\ pc = "main"
    /\ i < NumEpisodes
    /\ robot_state' = robot_state
    /\ pc' = "run_bot"
    /\ last' = NoCall("reset")
    /\ UNCHANGED <<robot_vars, i, rewards, steps>>

\* Environment.reset, called at the top of main's loop
Reset ==
    /\ pc = "main"
    /\ i < NumEpisodes
    /\ robot_state' = <<0, 0>>
    /\ pc' = "run_bot"
    /\ last' = NoCall("reset")
    /\ UNCHANGED <<robot_vars, i, rewards, steps>>

\* mutant: restart without self.total_reward = 0
Restart_keep_total ==
    /\ pc = "run_bot"
    /\ iteration' = iteration + 1
    /\ game_over' = FALSE
    /\ epsilon' = IF epsilon - epsilon_decrease > 0
                  THEN epsilon - epsilon_decrease ELSE 0
    /\ pc' = "loop"
    /\ last' = NoCall("restart")
    /\ rewards' = << >>
    /\ UNCHANGED <<robot_state, Q_table, epsilon_decrease, epsilon0, i, steps,
                   total_reward>>

\* mutant: restart without the max(..., 0)
Restart_no_floor ==
    /\ pc = "run_bot"
    /\ iteration' = iteration + 1
    /\ total_reward' = 0
    /\ game_over' = FALSE
    /\ epsilon' = epsilon - epsilon_decrease
    /\ pc' = "loop"
    /\ last' = NoCall("restart")
    /\ rewards' = << >>
    /\ UNCHANGED <<robot_state, Q_table, epsilon_decrease, epsilon0, i, steps>>

\* Robot.restart, called on entry to run_bot
Restart ==
    /\ pc = "run_bot"
    /\ iteration' = iteration + 1
    /\ total_reward' = 0
    /\ game_over' = FALSE
    /\ epsilon' = IF epsilon - epsilon_decrease > 0
                  THEN epsilon - epsilon_decrease ELSE 0
    /\ pc' = "loop"
    /\ last' = NoCall("restart")
    /\ rewards' = << >>
    /\ UNCHANGED <<robot_state, Q_table, epsilon_decrease, epsilon0, i, steps>>

\* Robot.update_bot, one pass of the while loop of run_bot
UpdateBot ==
    /\ pc = "loop"
    /\ ~game_over
    /\ steps < MaxSteps
    /\ \E take_best_action \in take_best_choices(epsilon), random_action \in 0..3 :
         LET state  == robot_state
             action == IF take_best_action THEN argmax(Q_table[state])
                       ELSE random_action
         IN  \E randomized_action \in randomized_actions(action) :
               LET ret == receive_action(state, randomized_action)
                   new_state == ret.robot_state
               IN  /\ robot_state' = new_state
                   /\ game_over' = ret.game_over
                   /\ total_reward' = total_reward + ret.reward
                   /\ Q_table' = q_update(Q_table, state, action, new_state,
                                           ret.reward)
                   /\ last' = [op |-> "update_bot", state |-> state,
                               take_best_action |-> take_best_action,
                               action |-> action,
                               randomized_action |-> randomized_action,
                               new_state |-> new_state,
                               new_reward |-> ret.reward,
                               game_over |-> ret.game_over]
                   /\ rewards' = Append(rewards, ret.reward)
    /\ steps' = steps + 1
    /\ UNCHANGED <<epsilon, epsilon_decrease, iteration, pc, i, epsilon0>>

\* mutant: run_bot leaves its loop whatever game_over is
Return_early ==
    /\ pc = "loop"
    /\ pc' = "main"
    /\ i' = i + 1
    /\ UNCHANGED <<robot_state, robot_vars, last, rewards, steps>>

\* run_bot returns once game_over is set, and main's loop goes on
Return ==
    /\ pc = "loop"
    /\ game_over
    /\ pc' = "main"
    /\ i' = i + 1
    /\ UNCHANGED <<robot_state, robot_vars, last, rewards, steps>>

Next == Reset \/ Restart \/ UpdateBot \/ Return

Spec == Init /\ [][Next]_vars

(* ------------- the Environment alone, under arbitrary calls ------------ *)

\* a call of Environment.reset
CallReset ==
    /\ robot_state' = <<0, 0>>
    /\ last' = NoCall("reset")
    /\ UNCHANGED <<robot_vars, pc, i, rewards, steps>>

\* a call of Environment.receive_action(action)
CallReceiveAction ==
    /\ \E action \in actions :
         \E randomized_action \in randomized_actions(action) :
           LET ret == receive_action(robot_state, randomized_action)
           IN  /\ robot_state' = ret.robot_state
               /\ last' = [op |-> "receive_action", state |-> robot_state,
                           take_best_action |-> FALSE,
                           action |-> action,
                           randomized_action |-> randomized_action,
                           new_state |-> ret.robot_state,
                           new_reward |-> ret.reward,
                           game_over |-> ret.game_over]
    /\ UNCHANGED <<robot_vars, pc, i, rewards, steps>>

NextEnv == CallReset \/ CallReceiveAction

SpecEnv == Init /\ [][NextEnv]_vars

(* ---- the Environment under the calls of one episode after another ----- *)

\* a call of Environment.reset, opening an episode
WalkReset ==
    /\ robot_state' = <<0, 0>>
    /\ last' = NoCall("reset")
    /\ rewards' = << >>
    /\ UNCHANGED <<robot_vars, pc, i, steps>>

\* a call of Environment.receive_action(action) with any action, as long as
\* no call since the last reset() has returned game_over
WalkStep ==
    /\ ~last.game_over
    /\ Len(rewards) < MaxWalk
    /\ \E action \in actions :
         \E randomized_action \in randomized_actions(action) :
           LET ret == receive_action(robot_state, randomized_action)
           IN  /\ robot_state' = ret.robot_state
               /\ last' = [op |-> "receive_action", state |-> robot_state,
                           take_best_action |-> FALSE,
                           action |-> action,
                           randomized_action |-> randomized_action,
                           new_state |-> ret.robot_state,
                           new_reward |-> ret.reward,
                           game_over |-> ret.game_over]
               /\ rewards' = Append(rewards, ret.reward)
    /\ UNCHANGED <<robot_vars, pc, i, steps>>

NextWalk == WalkReset \/ WalkStep

SpecWalk == Init /\ [][NextWalk]_vars

(* ------------------------------- claims -------------------------------- *)

\* whether the mask allowed the realized action of the last call
LastLegal == allowed_actions(last.state, last.randomized_action)

\* C1: under every sequence of reset() and receive_action(a) calls and every
\* outcome of the random substitution, the robot stays on the board:
\* 0 <= row < 5 and 0 <= col < 5.
C1_OnBoard ==
    /\ robot_state[1] >= 0 /\ robot_state[1] < 5
    /\ robot_state[2] >= 0 /\ robot_state[2] < 5

\* a realized action that would have left the board was refused
C1_Witness ==
    /\ last.op = "receive_action"
    /\ next_state(last.state, last.randomized_action) \notin Cells
    /\ robot_state = last.state

\* C2, as stated: when the submitted action a is one the mask forbids at s,
\* the call returns (s, -1, False) and the robot is still at s.
C2_SubmittedIllegal ==
    (last.op = "receive_action" /\ ~allowed_actions(last.state, last.action))
        => /\ last.new_state = last.state
           /\ last.new_reward = -1
           /\ last.game_over = FALSE
           /\ robot_state = last.state

\* C2, amended: when the realized action (after the random substitution) is
\* one the mask forbids at s, the call returns (s, -1, False) and the robot
\* is still at s.
C2_RealizedIllegal ==
    (last.op = "receive_action" /\ ~LastLegal)
        => /\ last.new_state = last.state
           /\ last.new_reward = -1
           /\ last.game_over = FALSE
           /\ robot_state = last.state

\* a forbidden realized action, drawn in place of an allowed submitted one,
\* while the robot rests on a final state
C2_Witness ==
    /\ last.op = "receive_action"
    /\ ~LastLegal
    /\ allowed_actions(last.state, last.action)
    /\ last.state \in final_states

\* C3: receive_action returns game_over = True exactly when the realized
\* action was allowed at the state before the call and the state after it is
\* one of (1,1), (1,2), (1,3); a refused action returns False on any cell.
C3_DoneIff ==
    last.op = "receive_action"
        => (last.game_over
              <=> (LastLegal /\ robot_state \in {<<1, 1>>, <<1, 2>>, <<1, 3>>}))

\* a refused action while the robot rests on a final state
C3_Witness ==
    /\ last.op = "receive_action"
    /\ ~LastLegal
    /\ robot_state \in final_states
    /\ ~last.game_over

Opposite(a) == (a + 2) % 4

Orthogonal(a) == {(a + 1) % 4, (a + 3) % 4}

\* C4: for each intended action the weights are 0.8 on it, 0.1 on each of the
\* two orthogonal actions and 0 on the opposite one, summing to 1, and the
\* realized action of a call is never the opposite of the intended one.
C4_Kernel ==
    /\ \A a \in 0..3 :
         /\ kernel_p[a + 1][a + 1] = 8
         /\ \A o \in Orthogonal(a) : kernel_p[a + 1][o + 1] = 1
         /\ kernel_p[a + 1][Opposite(a) + 1] = 0
         /\ kernel_p[a + 1][1] + kernel_p[a + 1][2]
              + kernel_p[a + 1][3] + kernel_p[a + 1][4] = 10
    /\ last.op = "receive_action"
         => /\ last.randomized_action # Opposite(last.action)
            /\ last.randomized_action \in {last.action} \cup Orthogonal(last.action)

\* a call whose realized action is orthogonal to the intended one
C4_Witness ==
    /\ last.op = "receive_action"
    /\ last.randomized_action \in Orthogonal(last.action)
    /\ robot_state # last.state

\* C5: the reward of a call is -1, plus board_rewards of the cell entered
\* when the realized action was allowed; it is exactly -1 when it was refused.
C5_Reward ==
    last.op = "receive_action"
        => last.new_reward =
             -1 + (IF LastLegal THEN board_rewards(robot_state) ELSE 0)

\* a move into (1,3), whose board reward is 100
C5_Witness ==
    /\ last.op = "receive_action"
    /\ LastLegal
    /\ last.new_reward = 99

\* the step being taken is a call of update_bot
UpdateStep == steps' = steps + 1 /\ last'.op = "update_bot"

\* the Q-values at state s of the actions the mask allows there
LegalQ(Q, s) == {Q[s][a] : a \in {b \in 0..3 : allowed_actions(s, b)}}

\* V(s): the largest of them
V(Q, s) == CHOOSE v \in LegalQ(Q, s) : \A w \in LegalQ(Q, s) : w <= v

\* C6: every call of update_bot, the one that ends the episode included, sets
\* Q[s, a] to old + alpha * (reward + gamma * V(new_state) - old), where s is
\* the state before the call, a the selected action and V(new_state) the
\* largest Q-value among the actions the mask allows at new_state.
C6_Backup ==
    [][UpdateStep =>
         LET s   == robot_state
             a   == last'.action
             old == Q_table[s][a]
             target == last'.new_reward * QScale
                         + (GammaNum * V(Q_table, robot_state')) \div GammaDen
         IN  /\ last'.state = s
             /\ last'.new_state = robot_state'
             /\ Q_table'[s][a] = old + (AlphaNum * (target - old)) \div AlphaDen
      ]_vars

\* the step that ended an episode has written its entry
C6_Witness ==
    /\ last.op = "update_bot"
    /\ last.game_over
    /\ Q_table[last.state][last.action] # InitialQ[last.state][last.action]

\* C7: an exploiting call selects an action whose Q-value at the current
\* state is the largest of all 4, allowed or not, and the first such action
\* in the order 0, 1, 2, 3.
C7_Greedy ==
    [][(UpdateStep /\ last'.take_best_action) =>
         LET row == Q_table[robot_state]
             a   == last'.action
         IN  /\ \A b \in 0..3 : row[b] <= row[a]
             /\ \A b \in 0..3 : b < a => row[b] < row[a]
      ]_vars

\* an exploiting call selected LEFT on the left border: UP lost its tie
\* with the three others, the first of which the mask forbids
C7_Witness ==
    /\ last.op = "update_bot"
    /\ last.take_best_action
    /\ last.action = LEFT
    /\ ~allowed_actions(last.state, LEFT)
    /\ Q_table[last.state][UP] < InitialQ[last.state][UP]

RECURSIVE SumSeq(_)
SumSeq(seq) == IF seq = << >> THEN 0 ELSE Head(seq) + SumSeq(Tail(seq))

\* C8: total_reward is the sum of the rewards returned by the receive_action
\* calls made since the restart() that opened the episode, at every point of
\* it and when run_bot returns.
C8_TotalReward == total_reward = SumSeq(rewards)

\* a step of the second episode, after run_bot returned from the first with
\* a total that restart() had to clear
C8_Witness ==
    /\ iteration = 2
    /\ i = 1
    /\ last.op = "update_bot"
    /\ Len(rewards) >= 1
    /\ total_reward < 0

\* C9: a call of update_bot changes at most the entry Q[state before the
\* call, selected action]; restart(), reset() and the return of run_bot change
\* no entry.
C9_Frame ==
    [][Q_table' # Q_table =>
         /\ UpdateStep
         /\ \E v \in {Q_table'[robot_state][last'.action]} :
              Q_table' = [Q_table EXCEPT ![robot_state][last'.action] = v]
      ]_vars

\* a second episode has started with what the first one learned, and moved
\* the robot to a cell whose entries are untouched
C9_Witness ==
    /\ iteration = 2
    /\ last.op = "update_bot"
    /\ last.new_state # last.state
    /\ Q_table[last.new_state] = InitialQ[last.new_state]
    /\ \E s \in Cells : s # last.state /\ Q_table[s] # InitialQ[s]

Max(x, y) == IF x >= y THEN x ELSE y

ReturnStep == pc = "loop" /\ pc' = "main"

\* C11: an episode ends only through the done flag: no update_bot follows a
\* receive_action that returned True, run_bot returns only when the last
\* receive_action returned True and the robot rests on a final state, and the
\* first step of the next episode comes after that return, a reset() and a
\* restart().
C11_EndsByDone ==
    [][/\ UpdateStep => ~(last.op = "update_bot" /\ last.game_over)
       /\ UpdateStep => last.op \in {"restart", "update_bot"}
       /\ ReturnStep => /\ last.op = "update_bot"
                        /\ last.game_over
                        /\ robot_state \in final_states
       /\ last'.op = "restart" => last.op = "reset"
       /\ last'.op = "reset"
            => (i = 0 \/ (last.op = "update_bot" /\ last.game_over))
      ]_vars

\* run_bot has returned from the first episode, and the second one has made
\* its first step
C11_Witness ==
    /\ i = 1
    /\ iteration = 2
    /\ last.op = "update_bot"
    /\ Len(rewards) = 1
    /\ ~last.game_over

\* C12: in main's loop every episode's first action is submitted from (0,0),
\* and receive_action is never called while the robot rests on a final state.
C12_StartAndNoResting ==
    [][UpdateStep =>
         /\ robot_state \notin final_states
         /\ rewards = << >> => robot_state = <<0, 0>>
      ]_vars

\* the first step of a second episode, taken from (0,0) after the first
\* episode left the robot on a final state
C12_Witness ==
    /\ iteration = 2
    /\ last.op = "update_bot"
    /\ Len(rewards) = 1
    /\ last.state = <<0, 0>>
    /\ steps >= 4

\* the offset of each action: UP row-1, LEFT col-1, DOWN row+1, RIGHT col+1
Offset(a) ==
    IF a = UP THEN <<-1, 0>>
    ELSE IF a = LEFT THEN <<0, -1>>
    ELSE IF a = DOWN THEN <<1, 0>>
    ELSE <<0, 1>>

Abs(x) == IF x < 0 THEN -x ELSE x

\* C13: after receive_action the robot is at the state before the call
\* shifted by the offset of the realized action when the mask allows it
\* there, and at the state before the call otherwise; the returned new_state
\* is the robot's state after the call, at most one cell away.
C13_Move ==
    last.op = "receive_action"
        => /\ robot_state =
                IF LastLegal
                THEN <<last.state[1] + Offset(last.randomized_action)[1],
                       last.state[2] + Offset(last.randomized_action)[2]>>
                ELSE last.state
           /\ last.new_state = robot_state
           /\ Abs(robot_state[1] - last.state[1])
                + Abs(robot_state[2] - last.state[2]) <= 1

\* an allowed LEFT, realized in place of an intended UP, moved the robot one
\* column to the left
C13_Witness ==
    /\ last.op = "receive_action"
    /\ last.action = UP
    /\ last.randomized_action = LEFT
    /\ robot_state = <<last.state[1], last.state[2] - 1>>

\* C14: every cell of the board, final or not, has an action the mask
\* allows, so max_reachable_q at the robot's state (the new_state of the last
\* backup) is a Q-value and never minus infinity, and the entry a backup
\* writes is finite.
C14_FiniteTarget ==
    /\ \A s \in Cells : \E a \in 0..3 : allowed_actions(s, a)
    /\ max_reachable_q(Q_table, robot_state) > NegInf
    /\ \E a \in 0..3 :
         max_reachable_q(Q_table, robot_state) = Q_table[robot_state][a]
    /\ last.op = "update_bot" => Q_table[last.state][last.action] > NegInf

\* the step that entered final state (1,2) has backed up a finite value
C14_Witness ==
    /\ last.op = "update_bot"
    /\ last.new_state = <<1, 2>>
    /\ Q_table[last.state][last.action] > 0

\* C18: (1,3) is reached from (0,0) by legal moves, never in fewer than 10
\* calls, so no episode started at (0,0) ends with rewards summing to more
\* than 90 (by C8 the sum is total_reward); the witness shows 10 calls and 90.
C18_BestEpisode ==
    /\ (last.game_over /\ robot_state = <<1, 3>>) => Len(rewards) >= 10
    /\ last.game_over => SumSeq(rewards) <= 90

\* (1,3) entered by the 10th call after reset(), the rewards summing to 90
C18_Witness ==
    /\ last.game_over
    /\ robot_state = <<1, 3>>
    /\ Len(rewards) = 10
    /\ SumSeq(rewards) = 90

\* C16: in main's loop no entry of the final states (1,1), (1,2), (1,3) is
\* written, all 4 of each stay at -1.0, and the step that ends an episode
\* backs up with V(new_state) = -1, not 0.
C16_FinalEntries ==
    /\ [](\A s \in {<<1, 1>>, <<1, 2>>, <<1, 3>>}, a \in 0..3 :
            Q_table[s][a] = -QScale)
    /\ [][UpdateStep =>
            /\ robot_state \notin {<<1, 1>>, <<1, 2>>, <<1, 3>>}
            /\ last'.game_over =>
                 LET old == Q_table[robot_state][last'.action]
                 IN  /\ max_reachable_q(Q_table, robot_state') = -QScale
                     /\ Q_table'[robot_state][last'.action] =
                          old + (AlphaNum * (last'.new_reward * QScale
                                             + (GammaNum * (-QScale)) \div GammaDen
                                             - old)) \div AlphaDen
         ]_vars

\* entering (1,2) from a fresh entry: -1 + 0.1 * (49 + 0.98 * (-1) + 1)
C16_Witness ==
    /\ last.op = "update_bot"
    /\ last.game_over
    /\ last.new_state = <<1, 2>>
    /\ Q_table[last.state][last.action] =
         -QScale + (AlphaNum * (49 * QScale + (GammaNum * (-QScale)) \div GammaDen
                                + QScale)) \div AlphaDen

RECURSIVE CanReach(_)
CanReach(S) ==
    LET T == S \cup {s \in Cells : \E a \in 0..3 :
                       allowed_actions(s, a) /\ next_state(s, a) \in S}
    IN  IF T = S THEN S ELSE CanReach(T)

\* a lemma towards C15 (which stays open): from every cell an episode
\* reaches, some final state is reached by moves the mask allows
ReachesFinal == robot_state \in CanReach(final_states)

====
